---- MODULE Spec2Model ----
(***************************************************************************)
(* Model of pre_commit_hooks/jira_ticket_check.py: the commit-message      *)
(* hook that extracts JIRA ticket identifiers, looks each one up at the    *)
(* JIRA REST API and exits 0 or 1.                                         *)
(*                                                                         *)
(* Python strings are sequences of one-character strings.  An optional     *)
(* string (the result of os.getenv) is a record [isNone, s].               *)
(***************************************************************************)
EXTENDS Integers, Sequences, FiniteSets, TLC

VARIABLES
    environ,                  \* os.environ of the process
    argv,                     \* [flag, file]: --change-request-required, the file at sys.argv[1]
    JIRA_URL,                 \* module globals, set at import
    JIRA_API_TOKEN,
    JIRA_USERNAME,
    CHANGE_REQUEST_REQUIRED,
    change_request_required,  \* locals of main()
    file_text,                \* what file.read() returned in get_commit_message
    commit_message,
    tickets,
    cr_ticket_found,
    idx,                      \* position of the for loop in tickets
    get_calls,                \* the requests.get calls made so far, in order, with what came back
    validated,                \* the values validate_jira_ticket returned so far, in order
    stdout,                   \* the printed lines, in order
    pc,                       \* position of the process
    exit_code,                \* -1 while running
    crashed                   \* the process ended by an uncaught exception

vars == <<environ, argv, JIRA_URL, JIRA_API_TOKEN, JIRA_USERNAME,
          CHANGE_REQUEST_REQUIRED, change_request_required, file_text,
          commit_message, tickets, cr_ticket_found, idx, get_calls, validated,
          stdout, pc, exit_code, crashed>>

---------------------------------------------------------------------------
(* Bounds of the model *)

\* the commit message file holds at most MaxWords words of Words
MaxWords == 3

---------------------------------------------------------------------------
(* Strings *)

None == [isNone |-> TRUE, s |-> <<>>]

Str(s) == [isNone |-> FALSE, s |-> s]

\* Python truthiness of an optional string: None and "" are falsy
Truthy(v) == ~v.isNone /\ v.s # <<>>

Upper == {"A", "B", "C", "R", "X", "T", "U", "E", "F", "N"}

Lower == {"x", "t", "r", "u", "e", "f", "a", "l", "s", "n", "o", "y"}

Digit == {"0", "1", "2", "3", "4", "5", "6", "7"}

Whitespace == {" ", "\n", "\t"}

\* \w of the re module
IsWord(c) == c \in Upper \cup Lower \cup Digit \cup {"_"}

\* str.lower() on one character
LowerChar(c) ==
    CASE c = "A" -> "a" [] c = "B" -> "b" [] c = "C" -> "c" [] c = "R" -> "r"
      [] c = "X" -> "x" [] c = "T" -> "t" [] c = "U" -> "u" [] c = "E" -> "e"
      [] c = "F" -> "f" [] c = "N" -> "n"
      [] OTHER -> c

\* variant of lower: the value is compared as it is, case kept
lower_identity(s) == s

\* str.lower()
lower(s) == [k \in 1..Len(s) |-> LowerChar(s[k])]

RECURSIVE lstrip(_)
lstrip(s) ==
    IF s # <<>> /\ Head(s) \in Whitespace THEN lstrip(Tail(s)) ELSE s

RECURSIVE rstrip(_)
rstrip(s) ==
    IF s # <<>> /\ s[Len(s)] \in Whitespace
    THEN rstrip(SubSeq(s, 1, Len(s) - 1))
    ELSE s

\* str.strip()
strip(s) == rstrip(lstrip(s))

\* str.startswith
startswith(s, prefix) ==
    Len(s) >= Len(prefix) /\ SubSeq(s, 1, Len(prefix)) = prefix

---------------------------------------------------------------------------
(* ticket_regex = re.compile(r"\b[A-Z]+-\d+\b") and its findall *)

WordAt(s, p) == p >= 1 /\ p <= Len(s) /\ IsWord(s[p])

\* \b just before position p (p in 1..Len(s)+1)
Boundary(s, p) == WordAt(s, p - 1) # WordAt(s, p)

\* length of the longest run of characters of class cls starting at p
RECURSIVE Run(_, _, _)
Run(s, p, cls) ==
    IF p <= Len(s) /\ s[p] \in cls THEN 1 + Run(s, p + 1, cls) ELSE 0

\* the <<k, m>> for which [A-Z]{k} - \d{m} matches at p between two boundaries
MatchesAt(s, p) ==
    IF ~Boundary(s, p) THEN {}
    ELSE LET ks == {k \in 1..Run(s, p, Upper) : p + k <= Len(s) /\ s[p + k] = "-"}
             kms == UNION {{<<k, m>> : m \in 1..Run(s, p + k + 1, Digit)} : k \in ks}
         IN  {km \in kms : Boundary(s, p + km[1] + 1 + km[2])}

\* the match the backtracking search finds first: greedy in [A-Z]+, then in \d+
FirstMatch(s, p) ==
    LET ms == MatchesAt(s, p)
        k  == CHOOSE k \in {km[1] : km \in ms} : \A km \in ms : km[1] <= k
        m  == CHOOSE m \in {km[2] : km \in {x \in ms : x[1] = k}} :
                  \A km \in {x \in ms : x[1] = k} : km[2] <= m
    IN  k + 1 + m

\* findall from position p on: non-overlapping matches, left to right
RECURSIVE findall_from(_, _)
findall_from(s, p) ==
    IF p > Len(s) THEN <<>>
    ELSE IF MatchesAt(s, p) = {} THEN findall_from(s, p + 1)
    ELSE LET n == FirstMatch(s, p)
         IN  <<SubSeq(s, p, p + n - 1)>> \o findall_from(s, p + n)

findall(s) == findall_from(s, 1)

---------------------------------------------------------------------------
(* The inputs of a run *)

ABC_123 == <<"A", "B", "C", "-", "1", "2", "3">>

CR_456 == <<"C", "R", "-", "4", "5", "6">>

CRX_7 == <<"C", "R", "X", "-", "7">>

\* the pieces a commit message file is made of
Words == {ABC_123, CR_456, CRX_7, <<" ">>, <<"\n">>, <<"x">>, <<"-">>}

RECURSIVE Texts(_)
Texts(n) ==
    IF n = 0 THEN {<<>>}
    ELSE Texts(n - 1) \cup {t \o w : t \in Texts(n - 1), w \in Words}

\* the contents the file at sys.argv[1] may have
FileTexts == Texts(MaxWords)

\* the values the CHANGE_REQUEST_REQUIRED variable may have
PolicyStrings ==
    {<<"T", "r", "u", "e">>, <<"T", "R", "U", "E">>, <<"t">>, <<"T">>, <<"1">>,
     <<"F", "a", "l", "s", "e">>, <<"t", "r", "u", "e", " ">>, <<>>}

SomeUrl == <<"h", "t", "t", "p", "s", ":", "/", "/", "j">>

SomeSecret == <<"s">>

\* what requests.get meets: an exception (exc), or a response with a status
\* code and a body; the body is JSON or not (json_ok); a JSON body holds the
\* keys fields/status/name down to depth, and under name the string name
Response(exc, code, json_ok, depth, name) ==
    [exc |-> exc, status_code |-> code, json_ok |-> json_ok, depth |-> depth, name |-> name]

StatusNames == {"In Progress", "Approved", "To Do"}

NetResponses ==
    {Response("ConnectionError", 0, FALSE, 0, ""),
     Response("", 500, FALSE, 0, ""),
     Response("", 404, TRUE, 0, ""),
     Response("", 200, FALSE, 0, ""),
     Response("", 200, TRUE, 0, ""),
     Response("", 200, TRUE, 2, "")}
    \cup {Response("", 200, TRUE, 3, n) : n \in StatusNames}

\* requests.get on a URL without a scheme ("None/rest/api/2/...") raises before sending
MissingSchema == Response("MissingSchema", 0, FALSE, 0, "")

---------------------------------------------------------------------------
(* jira_api_request and validate_jira_ticket *)

\* url = f"{JIRA_URL}/rest/api/2/{endpoint}": str(None) is "None"
url(endpoint) ==
    (IF JIRA_URL.isNone THEN <<"N", "o", "n", "e">> ELSE JIRA_URL.s)
        \o <<"/", "r", "e", "s", "t", "/", "a", "p", "i", "/", "2", "/">> \o endpoint

\* what requests.get(u) can meet: a URL without a scheme is refused before
\* anything is sent, any other goes to the network
requests_get(u) ==
    IF startswith(u, <<"h", "t", "t", "p">>) THEN NetResponses ELSE {MissingSchema}

\* the value returned, or the exception raised, given what requests.get met
jira_api_request(endpoint, resp) ==
    IF resp.exc # "" THEN [raised |-> resp.exc, depth |-> 0, name |-> ""]
    ELSE IF resp.status_code # 200 THEN [raised |-> "Exception", depth |-> 0, name |-> ""]
    ELSE IF ~resp.json_ok THEN [raised |-> "JSONDecodeError", depth |-> 0, name |-> ""]
    ELSE [raised |-> "", depth |-> resp.depth, name |-> resp.name]

\* the exception classes the code can meet; all derive from Exception
ExceptionKinds == {"ConnectionError", "MissingSchema", "Exception", "JSONDecodeError", "KeyError"}

\* variant of except_Exception: only the exceptions of requests are caught
except_RequestException(kind) == kind \in {"ConnectionError", "MissingSchema"}

\* except Exception as e
except_Exception(kind) == kind \in ExceptionKinds

Line(text, ticket) == [text |-> text, ticket |-> ticket]

In(x, list) == \E k \in 1..Len(list) : list[k] = x

\* variant of validate_jira_ticket: no CR- branch, every ticket goes by valid_statuses
validate_jira_ticket_cr_by_list(ticket_id, valid_statuses, resp) ==
    LET issue  == jira_api_request(ticket_id, resp)
        raised == IF issue.raised # "" THEN issue.raised
                  ELSE IF issue.depth < 3 THEN "KeyError"
                  ELSE ""
    IN  IF raised # ""
        THEN IF except_Exception(raised)
             THEN [ret |-> FALSE, raised |-> "",
                   printed |-> <<Line("Failed to validate JIRA ticket", ticket_id)>>]
             ELSE [ret |-> FALSE, raised |-> raised, printed |-> <<>>]
        ELSE IF ~In(issue.name, valid_statuses)
             THEN [ret |-> FALSE, raised |-> "",
                   printed |-> <<Line("Ticket is not in one of the valid statuses", ticket_id)>>]
             ELSE [ret |-> TRUE, raised |-> "", printed |-> <<>>]

\* ret: the value returned; raised: the exception that left the function;
\* printed: the lines it printed
validate_jira_ticket(ticket_id, valid_statuses, resp) ==
    LET issue  == jira_api_request(ticket_id, resp)
        raised == IF issue.raised # "" THEN issue.raised
                  ELSE IF issue.depth < 3 THEN "KeyError"
                  ELSE ""
        status_name == issue.name
    IN  IF raised # ""
        THEN IF except_Exception(raised)
             THEN [ret |-> FALSE, raised |-> "",
                   printed |-> <<Line("Failed to validate JIRA ticket", ticket_id)>>]
             ELSE [ret |-> FALSE, raised |-> raised, printed |-> <<>>]
        ELSE IF startswith(ticket_id, <<"C", "R", "-">>)
             THEN IF status_name # "Approved"
                  THEN [ret |-> FALSE, raised |-> "",
                        printed |-> <<Line("CR ticket is not in the 'Approved' status.", ticket_id)>>]
                  ELSE [ret |-> TRUE, raised |-> "", printed |-> <<>>]
             ELSE IF ~In(status_name, valid_statuses)
                  THEN [ret |-> FALSE, raised |-> "",
                        printed |-> <<Line("Ticket is not in one of the valid statuses", ticket_id)>>]
                  ELSE [ret |-> TRUE, raised |-> "", printed |-> <<>>]

---------------------------------------------------------------------------
(* The process *)

getenv(name) == environ[name]

getenv_default(name, default) ==
    IF environ[name].isNone THEN default ELSE environ[name].s

\* sys.exit(code) after printing lines
Exit(code, lines) ==
    /\ pc' = "exited"
    /\ exit_code' = code
    /\ stdout' = stdout \o lines

\* an uncaught exception: traceback, exit status 1
Crash ==
    /\ pc' = "exited"
    /\ exit_code' = 1
    /\ crashed' = TRUE

Init ==
    /\ environ \in [JIRA_URL : {None, Str(SomeUrl)},
                    JIRA_API_TOKEN : {None, Str(<<>>), Str(SomeSecret)},
                    JIRA_USERNAME : {None, Str(<<>>), Str(SomeSecret)},
                    CHANGE_REQUEST_REQUIRED : {None} \cup {Str(v) : v \in PolicyStrings}]
    /\ argv \in [change_request_required : BOOLEAN]
    /\ JIRA_URL = None
    /\ JIRA_API_TOKEN = None
    /\ JIRA_USERNAME = None
    /\ CHANGE_REQUEST_REQUIRED = FALSE
    /\ change_request_required = FALSE
    /\ file_text = None
    /\ commit_message = None
    /\ tickets = <<>>
    /\ cr_ticket_found = FALSE
    /\ idx = 1
    /\ get_calls = <<>>
    /\ validated = <<>>
    /\ stdout = <<>>
    /\ pc = "import"
    /\ exit_code = -1
    /\ crashed = FALSE

\* the module-level statements
Import ==
    /\ pc = "import"
    /\ JIRA_URL' = getenv("JIRA_URL")
    /\ JIRA_API_TOKEN' = getenv("JIRA_API_TOKEN")
    /\ JIRA_USERNAME' = getenv("JIRA_USERNAME")
    /\ CHANGE_REQUEST_REQUIRED' =
           (lower(getenv_default("CHANGE_REQUEST_REQUIRED", <<"T", "r", "u", "e">>))
               \in {<<"t", "r", "u", "e">>, <<"1">>, <<"t">>})
    /\ IF ~Truthy(JIRA_API_TOKEN') \/ ~Truthy(JIRA_USERNAME')
       THEN Exit(1, <<Line("JIRA_API_TOKEN and JIRA_USERNAME must be set as environment variables.", <<>>),
                      Line("Exiting with code 1", <<>>)>>)
       ELSE /\ pc' = "main"
            /\ UNCHANGED <<exit_code, stdout>>
    /\ UNCHANGED <<environ, argv, change_request_required, file_text, commit_message, tickets,
                   cr_ticket_found, idx, get_calls, validated, crashed>>

\* main(), from the argument parser to the print of the policy
ParseArgs ==
    /\ pc = "main"
    /\ change_request_required' = (argv.change_request_required \/ CHANGE_REQUEST_REQUIRED)
    /\ stdout' = stdout \o <<Line("Change request required", <<>>)>>
    /\ pc' = "read"
    /\ UNCHANGED <<environ, argv, JIRA_URL, JIRA_API_TOKEN, JIRA_USERNAME,
                   CHANGE_REQUEST_REQUIRED, file_text, commit_message, tickets, cr_ticket_found,
                   idx, get_calls, validated, exit_code, crashed>>

\* commit_message = get_commit_message(): the file is there with some text,
\* or open() raises
get_commit_message ==
    /\ pc = "read"
    /\ \/ \E text \in FileTexts :
             /\ file_text' = Str(text)
             /\ commit_message' = Str(strip(text))
             /\ pc' = "extract"
             /\ UNCHANGED <<exit_code, crashed>>
       \/ /\ Crash
          /\ UNCHANGED <<file_text, commit_message>>
    /\ UNCHANGED <<environ, argv, JIRA_URL, JIRA_API_TOKEN, JIRA_USERNAME,
                   CHANGE_REQUEST_REQUIRED, change_request_required, tickets,
                   cr_ticket_found, idx, get_calls, validated, stdout>>

\* variant of ExtractTickets: the `if not tickets` check is missing
ExtractTickets_no_check ==
    /\ pc = "extract"
    /\ tickets' = findall(commit_message.s)
    /\ pc' = "count"
    /\ UNCHANGED <<exit_code, stdout>>
    /\ UNCHANGED <<environ, argv, JIRA_URL, JIRA_API_TOKEN, JIRA_USERNAME,
                   CHANGE_REQUEST_REQUIRED, change_request_required, file_text, commit_message,
                   cr_ticket_found, idx, get_calls, validated, crashed>>

\* tickets = ticket_regex.findall(commit_message) and the check that follows
ExtractTickets ==
    /\ pc = "extract"
    /\ tickets' = findall(commit_message.s)
    /\ IF tickets' = <<>>
       THEN Exit(1, <<Line("No JIRA ticket found in commit message.", <<>>),
                      Line("Exiting with code 1", <<>>)>>)
       ELSE /\ pc' = "count"
            /\ UNCHANGED <<exit_code, stdout>>
    /\ UNCHANGED <<environ, argv, JIRA_URL, JIRA_API_TOKEN, JIRA_USERNAME,
                   CHANGE_REQUEST_REQUIRED, change_request_required, file_text, commit_message,
                   cr_ticket_found, idx, get_calls, validated, crashed>>

\* variant of CheckTicketCount: the len(tickets) < 2 check is missing
CheckTicketCount_no_check ==
    /\ pc = "count"
    /\ pc' = "loop"
    /\ UNCHANGED <<exit_code, stdout>>
    /\ UNCHANGED <<environ, argv, JIRA_URL, JIRA_API_TOKEN, JIRA_USERNAME,
                   CHANGE_REQUEST_REQUIRED, change_request_required, file_text, commit_message,
                   tickets, cr_ticket_found, idx, get_calls, validated, crashed>>

\* if change_request_required: if len(tickets) < 2: ...
CheckTicketCount ==
    /\ pc = "count"
    /\ IF change_request_required /\ Len(tickets) < 2
       THEN Exit(1, <<Line("Two tickets are required in the commit message when change request is required.", <<>>)>>)
       ELSE /\ pc' = "loop"
            /\ UNCHANGED <<exit_code, stdout>>
    /\ UNCHANGED <<environ, argv, JIRA_URL, JIRA_API_TOKEN, JIRA_USERNAME,
                   CHANGE_REQUEST_REQUIRED, change_request_required, file_text, commit_message,
                   tickets, cr_ticket_found, idx, get_calls, validated, crashed>>

valid_statuses == <<"In Progress">>

\* the statuses main() passes to validate_jira_ticket for ticket
StatusesFor(ticket) ==
    IF change_request_required /\ startswith(ticket, <<"C", "R", "-">>)
    THEN <<"Approved">>
    ELSE valid_statuses

\* variant of LoopDone: the loop stops one ticket early
LoopDone_off_by_one == idx >= Len(tickets)

\* for ticket in tickets: no ticket is left
LoopDone == idx > Len(tickets)

\* variant of exit_if_invalid: the sys.exit(1) is missing
no_exit_if_invalid(v) ==
    /\ idx' = idx + 1
    /\ stdout' = stdout \o v.printed
    /\ UNCHANGED <<pc, exit_code>>

\* if not validate_jira_ticket(...): sys.exit(1), else on to the next ticket
exit_if_invalid(v) ==
    IF ~v.ret
    THEN /\ Exit(1, v.printed)
         /\ idx' = idx
    ELSE /\ idx' = idx + 1
         /\ stdout' = stdout \o v.printed
         /\ UNCHANGED <<pc, exit_code>>

\* one iteration of the for loop over tickets (of either branch)
ValidateTicket ==
    /\ pc = "loop"
    /\ ~LoopDone
    /\ LET ticket == tickets[idx]
           u == url(<<"i", "s", "s", "u", "e", "/">> \o ticket)
       IN  \E resp \in requests_get(u) :
             LET v == validate_jira_ticket(ticket, StatusesFor(ticket), resp)
             IN  /\ get_calls' = Append(get_calls, [ticket |-> ticket, url |-> u, resp |-> resp])
                 /\ cr_ticket_found' =
                        (cr_ticket_found
                           \/ (change_request_required /\ startswith(ticket, <<"C", "R", "-">>)))
                 /\ IF v.raised # ""
                    THEN /\ Crash
                         /\ UNCHANGED <<stdout, validated, idx>>
                    ELSE /\ validated' = Append(validated, v.ret)
                         /\ crashed' = crashed
                         /\ exit_if_invalid(v)
    /\ UNCHANGED <<environ, argv, JIRA_URL, JIRA_API_TOKEN, JIRA_USERNAME,
                   CHANGE_REQUEST_REQUIRED, change_request_required, file_text, commit_message,
                   tickets>>

\* variant of Finish: the cr_ticket_found check is made in both policy modes
Finish_cr_always ==
    /\ pc = "loop"
    /\ LoopDone
    /\ IF ~cr_ticket_found
       THEN Exit(1, <<Line("Change request ticket (CR-) is required but not found in commit message.", <<>>)>>)
       ELSE Exit(0, <<Line("JIRA ticket(s) validated successfully.", <<>>),
                      Line("Exiting with code 0", <<>>)>>)
    /\ UNCHANGED <<environ, argv, JIRA_URL, JIRA_API_TOKEN, JIRA_USERNAME,
                   CHANGE_REQUEST_REQUIRED, change_request_required, file_text, commit_message,
                   tickets, cr_ticket_found, idx, get_calls, validated, crashed>>

\* after the loop: the cr_ticket_found check of the policy branch, then success
Finish ==
    /\ pc = "loop"
    /\ LoopDone
    /\ IF change_request_required /\ ~cr_ticket_found
       THEN Exit(1, <<Line("Change request ticket (CR-) is required but not found in commit message.", <<>>)>>)
       ELSE Exit(0, <<Line("JIRA ticket(s) validated successfully.", <<>>),
                      Line("Exiting with code 0", <<>>)>>)
    /\ UNCHANGED <<environ, argv, JIRA_URL, JIRA_API_TOKEN, JIRA_USERNAME,
                   CHANGE_REQUEST_REQUIRED, change_request_required, file_text, commit_message,
                   tickets, cr_ticket_found, idx, get_calls, validated, crashed>>

Next ==
    \/ Import
    \/ ParseArgs
    \/ get_commit_message
    \/ ExtractTickets
    \/ CheckTicketCount
    \/ ValidateTicket
    \/ Finish

Spec == Init /\ [][Next]_vars

---------------------------------------------------------------------------
(* Vocabulary of the properties *)

Exited == pc = "exited"

Accepted == pc = "exited" /\ exit_code = 0

\* the file was read: the run has a commit message
HasMessage == ~file_text.isNone

\* the matches of the ticket pattern in the text of the commit message file
Matches == findall(file_text.s)

\* a ticket identifier of the change-request class
IsChangeRequest(t) == Len(t) >= 3 /\ t[1] = "C" /\ t[2] = "R" /\ t[3] = "-"

\* the lookup came back with fields.status.name
LookupSucceeded(r) ==
    r.exc = "" /\ r.status_code = 200 /\ r.json_ok /\ r.depth = 3

\* ... and the status is the one allowed for the class of ticket t
LookupAllowed(t, r) ==
    /\ LookupSucceeded(r)
    /\ r.name = (IF IsChangeRequest(t) THEN "Approved" ELSE "In Progress")

LastLine == stdout[Len(stdout)].text

TwoTicketsLine ==
    "Two tickets are required in the commit message when change request is required."

MissingCrLine ==
    "Change request ticket (CR-) is required but not found in commit message."

\* main() has computed change_request_required
PolicyKnown == stdout # <<>> /\ stdout[1].text = "Change request required"

---------------------------------------------------------------------------
(* C1 *)

\* C1: a commit message with no match of [A-Z]+-\d+ is never taken past the
\* extraction: no requests.get call is made at any point, and the exit code
\* is 1, whatever change_request_required is.
C1_NoTicketRejectsWithoutRequest ==
    (HasMessage /\ Matches = <<>>) =>
        /\ get_calls = <<>>
        /\ pc \in {"extract", "exited"}
        /\ (Exited => exit_code = 1 /\ ~crashed)

C1_Witness ==
    /\ Exited /\ exit_code = 1
    /\ HasMessage /\ file_text.s # <<>> /\ Matches = <<>>
    /\ LastLine = "Exiting with code 1"

---------------------------------------------------------------------------
(* C2 *)

\* C2: when main() has exited 0, in either policy mode, every match of the
\* commit message was looked up, in order, and each lookup succeeded with
\* the status allowed for the class of its ticket: "Approved" for CR-,
\* "In Progress" for any other.
C2_AcceptOnlyIfAllAllowed ==
    Accepted =>
        /\ HasMessage
        /\ Len(get_calls) = Len(Matches)
        /\ \A k \in 1..Len(Matches) :
              /\ get_calls[k].ticket = Matches[k]
              /\ LookupAllowed(Matches[k], get_calls[k].resp)

C2_Witness ==
    /\ Accepted
    /\ ~change_request_required
    /\ \E k \in 1..Len(tickets) : IsChangeRequest(tickets[k])
    /\ \E k \in 1..Len(tickets) : ~IsChangeRequest(tickets[k])

---------------------------------------------------------------------------
(* C3 *)

\* C3, as stated: at the exit of any run that read a commit message, every
\* match of it has been looked up.
C3_Original ==
    (Exited /\ HasMessage) => Len(get_calls) = Len(Matches)

\* C3, amended: an accepting run has looked up every match of the commit
\* message; a run ends with matches not looked up only by rejecting, either
\* after a lookup whose validation failed or, with the policy active, on
\* fewer than two matches before any lookup.
C3_AllLookedUpBeforeAccept ==
    (Exited /\ HasMessage) =>
        /\ \A k \in 1..Len(get_calls) :
              k <= Len(Matches) /\ get_calls[k].ticket = Matches[k]
        /\ (exit_code = 0 => Len(get_calls) = Len(Matches))
        /\ (Len(get_calls) < Len(Matches) =>
              /\ exit_code = 1
              /\ \/ /\ get_calls # <<>>
                    /\ ~LookupAllowed(get_calls[Len(get_calls)].ticket,
                                      get_calls[Len(get_calls)].resp)
                 \/ /\ get_calls = <<>>
                    /\ change_request_required
                    /\ Len(Matches) < 2)

C3_Witness ==
    /\ Accepted
    /\ Len(Matches) = 2
    /\ Len(get_calls) = 2

---------------------------------------------------------------------------
(* C4 *)

\* C4: with the policy active, main() exits 0 only if the commit message
\* references at least two distinct ticket identifiers.
C4_AcceptNeedsTwoDistinct ==
    (Accepted /\ change_request_required) =>
        Cardinality({tickets[k] : k \in 1..Len(tickets)}) >= 2

---------------------------------------------------------------------------
(* C5 *)

\* C5: a run that ends after lookups that all succeeded with an allowed
\* status exits 0, provided the policy is inactive and there is a match, or
\* the policy is active and there are two matches or more, one at least of
\* the change-request class.
C5_AllAllowedAccepts ==
    ( /\ Exited /\ HasMessage
      /\ \A k \in 1..Len(get_calls) :
            LookupAllowed(get_calls[k].ticket, get_calls[k].resp)
      /\ \/ ~change_request_required /\ Len(Matches) >= 1
         \/ /\ change_request_required
            /\ Len(Matches) >= 2
            /\ \E k \in 1..Len(Matches) : IsChangeRequest(Matches[k]) )
    => /\ exit_code = 0
       /\ Len(get_calls) = Len(Matches)

C5_Witness ==
    /\ Accepted
    /\ change_request_required
    /\ tickets = <<ABC_123, CR_456>>

---------------------------------------------------------------------------
(* C6 *)

\* C6: a lookup that fails, in any of the ways it can (an exception of
\* requests.get, a status code other than 200, a body that is not JSON, a
\* missing key), makes validate_jira_ticket return False with the same
\* diagnostic, no exception leaves it, and the run ends there with exit
\* code 1: no crash, no accept.
C6_FailedLookupRejects ==
    \A k \in 1..Len(get_calls) :
        ~LookupSucceeded(get_calls[k].resp) =>
            /\ k = Len(get_calls)
            /\ Len(validated) = k
            /\ validated[k] = FALSE
            /\ Exited /\ exit_code = 1 /\ ~crashed
            /\ stdout[Len(stdout)] = Line("Failed to validate JIRA ticket", get_calls[k].ticket)

C6_Witness ==
    /\ Exited /\ exit_code = 1
    /\ Len(get_calls) = 2
    /\ get_calls[2].resp.status_code = 500
    /\ validated = <<TRUE, FALSE>>

---------------------------------------------------------------------------
(* C7 *)

\* C7, as stated: with the policy active, a run on a commit message whose
\* only match is an ordinary ticket exits 1 and its diagnostic is the one
\* on the missing change-request ticket.
C7_Original ==
    ( /\ Exited /\ change_request_required
      /\ Len(tickets) = 1 /\ ~IsChangeRequest(tickets[1]) )
    => exit_code = 1 /\ LastLine = MissingCrLine

\* C7, amended: with the policy active, a run on a commit message whose
\* only match is an ordinary ticket exits 1 before any lookup and its
\* diagnostic is the one saying that two tickets are required; the
\* diagnostic on the missing change-request ticket is printed only after
\* two or more matches, none of the change-request class, were all
\* validated.
C7_SingleOrdinaryRejectedByCount ==
    /\ ( /\ Exited /\ change_request_required
         /\ Len(tickets) = 1 /\ ~IsChangeRequest(tickets[1]) )
       => /\ exit_code = 1
          /\ LastLine = TwoTicketsLine
          /\ get_calls = <<>>
    /\ (stdout # <<>> /\ LastLine = MissingCrLine)
       => /\ Exited /\ exit_code = 1 /\ change_request_required
          /\ Len(tickets) >= 2
          /\ \A k \in 1..Len(tickets) : ~IsChangeRequest(tickets[k])
          /\ Len(validated) = Len(tickets)
          /\ \A k \in 1..Len(validated) : validated[k]

C7_Witness ==
    /\ Exited /\ exit_code = 1
    /\ change_request_required
    /\ tickets = <<ABC_123>>
    /\ LastLine = TwoTicketsLine

---------------------------------------------------------------------------
(* C8 *)

\* C8: when one of JIRA_URL, JIRA_API_TOKEN, JIRA_USERNAME is absent, the
\* process ends at startup with exit code 1: no commit message is read, no
\* ticket is extracted, no request is made.
C8_MissingConfigFatalAtStartup ==
    ( \/ environ.JIRA_URL.isNone
      \/ environ.JIRA_API_TOKEN.isNone
      \/ environ.JIRA_USERNAME.isNone )
    => /\ pc \in {"import", "exited"}
       /\ file_text.isNone
       /\ tickets = <<>>
       /\ get_calls = <<>>
       /\ (Exited => exit_code = 1)

---------------------------------------------------------------------------
(* C9 *)

\* C9: the requests.get calls are made in the order of the matches, one
\* call per match at most, and a validation that returned False is the last
\* one of the run: the process has exited 1 with no later call.
C9_SequentialNoRetryStopAtFirstFailure ==
    /\ Len(get_calls) <= Len(tickets)
    /\ \A k \in 1..Len(get_calls) : get_calls[k].ticket = tickets[k]
    /\ Len(validated) = Len(get_calls)
    /\ \A k \in 1..Len(validated) :
          ~validated[k] =>
              /\ k = Len(get_calls)
              /\ Exited /\ exit_code = 1

C9_Witness ==
    /\ Exited /\ exit_code = 1
    /\ Len(tickets) = 2
    /\ validated = <<FALSE>>
    /\ Len(get_calls) = 1

---------------------------------------------------------------------------
(* C10 *)

\* the values of the environment variable that read as true, case by case
TrueValues ==
    {<<"T", "r", "u", "e">>, <<"T", "R", "U", "E">>, <<"t">>, <<"T">>, <<"1">>}

\* C10: change_request_required is true iff the flag is given or the
\* CHANGE_REQUEST_REQUIRED variable is unset or reads, in any case of
\* letters, true, 1 or t; any other value without the flag leaves the
\* policy inactive.
C10_EffectivePolicy ==
    PolicyKnown =>
        (change_request_required <=>
            \/ argv.change_request_required
            \/ environ.CHANGE_REQUEST_REQUIRED.isNone
            \/ environ.CHANGE_REQUEST_REQUIRED.s \in TrueValues)

C10_Witness ==
    /\ PolicyKnown
    /\ ~argv.change_request_required
    /\ environ.CHANGE_REQUEST_REQUIRED = Str(<<"T", "R", "U", "E">>)
    /\ change_request_required

====
